---- MODULE Spec2Model ----
(***************************************************************************)
(* The e-commerce dashboard of src/dashboard/app.py as a state machine.    *)
(* One run of the script is one recomputation pass: load_data (cached),    *)
(* the sidebar widgets, the filter, the four tabs and the summary.  A      *)
(* widget change by the user starts the next run.                          *)
(*                                                                         *)
(* Encodings.  A timestamp is the number of whole hours since              *)
(* 2017-01-01T00:00 (the years 2017..2019 have no leap day); a date is the *)
(* number of whole days since 2017-01-01.  A category name is its rank in  *)
(* alphabetical order (groupby sorts by it), 0 for a missing cell.  A      *)
(* nullable number is <<>> (NaN / NaT) or <<v>>.  Money is in whole units. *)
(***************************************************************************)
EXTENDS Integers, Sequences, FiniteSets, TLC

VARIABLES
    file,               \* rows of main_dataset.csv, as read_csv sees them
    cache,              \* st.cache_data: <<>> or <<the DataFrame load_data returned>>
    reads,              \* number of times load_data's body read the file
    df,                 \* module-level df of the current run
    widget,             \* the values the user gave the sidebar widgets (session state)
    start_date, end_date, selected_category, selected_payment, min_price, max_price,
    filtered_df,
    top_categories, monthly_revenue, order_hours, avg_shipping_time,
    total_orders, total_customers, total_revenue,
    pc,                 \* position of the running script
    changes,            \* widget changes made by the user so far
    passes              \* script runs started so far

vars == <<file, cache, reads, df, widget, start_date, end_date, selected_category,
          selected_payment, min_price, max_price, filtered_df, top_categories,
          monthly_revenue, order_hours, avg_shipping_time, total_orders,
          total_customers, total_revenue, pc, changes, passes>>

-----------------------------------------------------------------------------
(* Bounds of the model *)

MaxRows == 3            \* rows of a dataset file
MaxChanges == 3         \* widget changes in one session
MaxViewRows == 3        \* rows of an enumerated filtered view
MaxCats == 13           \* categories of a generated many-category view
MaxSeed == 5            \* generated many-category views per category count

(* Program constants *)

TopCategoriesHead == 10     \* .head(10) of top_categories
AvgShippingHead == 10       \* .head(10) of avg_shipping_time
DefaultCategories == 5      \* categories[:5]
RevenueYear == 2018         \* .dt.year == 2018

-----------------------------------------------------------------------------
(* Sequences *)

Range(s) == {s[i] : i \in 1..Len(s)}

RECURSIVE SumSeq(_)
\* Series.sum(): the sum of the numbers of s, 0 for none
SumSeq(s) ==
    CASE Len(s) = 0 -> 0
      [] Len(s) = 1 -> s[1]
      [] OTHER -> LET half == Len(s) \div 2
                  IN  SumSeq(SubSeq(s, 1, half)) + SumSeq(SubSeq(s, half + 1, Len(s)))

\* Series.head(n)
HeadN(s, n) == IF Len(s) <= n THEN s ELSE SubSeq(s, 1, n)

Min(S) == CHOOSE x \in S : \A y \in S : x <= y
Max(S) == CHOOSE x \in S : \A y \in S : y <= x

-----------------------------------------------------------------------------
(* Missing values *)

NaN == <<>>                 \* a missing number or timestamp (NaN, NaT)
NoCategory == 0             \* a missing product_category_name cell
NoText == "NaN"             \* a missing payment_type or customer_id cell

isna(x) == x = NaN
Val(x) == x[1]

-----------------------------------------------------------------------------
(* Timestamps *)

CumDays == <<0, 31, 59, 90, 120, 151, 181, 212, 243, 273, 304, 334>>

\* cells of a timestamp column of the file
Stamp(y, m, d, h) == [kind |-> "ts", y |-> y, m |-> m, d |-> d, h |-> h]
Blank == [kind |-> "blank", y |-> 0, m |-> 0, d |-> 0, h |-> 0]
Garbage == [kind |-> "garbage", y |-> 0, m |-> 0, d |-> 0, h |-> 0]

\* a calendar date as a day number, a day number at 00:00 as a timestamp
DateNum(y, m, d) == (y - 2017) * 365 + CumDays[m] + (d - 1)
Midnight(date) == date * 24

\* pd.to_datetime of a parsable cell
ParseStamp(c) == Midnight(DateNum(c.y, c.m, c.d)) + c.h

\* pd.to_datetime(column) raises on a cell it cannot parse
Unparsable(c) == c.kind = "garbage"

\* pd.to_datetime(column) of a cell it does not raise on: a missing cell is NaT
to_datetime(c) == IF c.kind = "ts" THEN <<ParseStamp(c)>> ELSE NaN

\* pd.to_datetime(column, errors="coerce"): unparsable cells become NaT
to_datetime_coerce(c) == IF c.kind = "ts" THEN <<ParseStamp(c)>> ELSE NaN

dt_date(t) == t \div 24
dt_hour(t) == t % 24
dt_year(t) == 2017 + (dt_date(t) \div 365)
dt_month(t) ==
    LET doy == dt_date(t) % 365
    IN  Max({m \in 1..12 : CumDays[m] <= doy})
\* .dt.to_period("M"), as YYYYMM
to_period_M(t) == dt_year(t) * 100 + dt_month(t)

\* a faulty variant of TimedeltaDays: the difference of the two calendar dates
TimedeltaDates(delivered, purchased) ==
    IF isna(delivered) THEN NaN ELSE <<dt_date(Val(delivered)) - dt_date(purchased)>>

\* (delivered - purchased).dt.days: the days component of a Timedelta is the
\* floor of the difference in days
TimedeltaDays(delivered, purchased) ==
    IF isna(delivered) THEN NaN ELSE <<(Val(delivered) - purchased) \div 24>>

-----------------------------------------------------------------------------
(* load_data *)

RawRow(p, d, cat, pay, value, cust) ==
    [order_purchase_timestamp |-> p, order_delivered_customer_date |-> d,
     product_category_name |-> cat, payment_type |-> pay, payment_value |-> value,
     customer_id |-> cust]

\* one row of the DataFrame load_data returns; order_purchase_timestamp is a
\* required column, so its cell is a timestamp or one to_datetime raises on
LoadRow(r) ==
    LET purchased == Val(to_datetime(r.order_purchase_timestamp))
        delivered == to_datetime_coerce(r.order_delivered_customer_date)
    IN  [order_purchase_timestamp |-> purchased,
         order_delivered_customer_date |-> delivered,
         product_category_name |-> r.product_category_name,
         payment_type |-> r.payment_type,
         payment_value |-> r.payment_value,
         customer_id |-> r.customer_id,
         shipping_time |-> TimedeltaDays(delivered, purchased),
         order_hour |-> dt_hour(purchased),
         year_month |-> to_period_M(purchased)]

LoadRaises(f) ==
    \E i \in 1..Len(f) : Unparsable(f[i].order_purchase_timestamp)

LoadFrame(f) == [i \in 1..Len(f) |-> LoadRow(f[i])]

-----------------------------------------------------------------------------
(* Sorting and grouping *)

\* sort_values: s ordered by the strict order before[i, j] ("row i sorts before
\* row j"), rows that compare equal keeping their order in s
SortedBy(s, before) ==
    LET n == Len(s)
        rank(i) == 1 + Cardinality({j \in 1..n :
                          \/ before[j, i]
                          \/ (~before[i, j] /\ j < i)})
    IN  [p \in 1..n |-> s[CHOOSE i \in 1..n : rank(i) = p]]

\* the numbers of S in ascending order: groupby's sorted group keys
Ascending(S) ==
    [p \in 1..Cardinality(S) |->
        CHOOSE x \in S : Cardinality({y \in S : y < x}) = p - 1]

\* Series.unique(): the distinct values in order of first appearance
Unique(s) ==
    LET firsts == Ascending({i \in 1..Len(s) : \A j \in 1..(i - 1) : s[j] # s[i]})
    IN  [p \in 1..Len(firsts) |-> s[firsts[p]]]

Column(frame, name) == [i \in 1..Len(frame) |-> frame[i][name]]

-----------------------------------------------------------------------------
(* Sidebar widgets: the options and defaults the script passes to them *)

\* df["order_purchase_timestamp"].min().date(), .max().date()
DefaultStartDate(frame) == dt_date(Min(Range(Column(frame, "order_purchase_timestamp"))))
DefaultEndDate(frame) == dt_date(Max(Range(Column(frame, "order_purchase_timestamp"))))

\* df["product_category_name"].dropna().unique()
categories(frame) ==
    Unique(SelectSeq(Column(frame, "product_category_name"), LAMBDA c : c # NoCategory))
DefaultCategory(frame) == Range(HeadN(categories(frame), DefaultCategories))

\* df["payment_type"].dropna().unique()
payment_methods(frame) ==
    Unique(SelectSeq(Column(frame, "payment_type"), LAMBDA p : p # NoText))
DefaultPayment(frame) == Range(payment_methods(frame))

\* float(df["payment_value"].min()), float(df["payment_value"].max())
SliderMin(frame) == Min(Range(Column(frame, "payment_value")))
SliderMax(frame) == Max(Range(Column(frame, "payment_value")))

-----------------------------------------------------------------------------
(* The filter *)

isin(x, values) == x \in values
between(x, lo, hi) == lo <= x /\ x <= hi

\* the boolean mask of filtered_df; pd.to_datetime(date) is the date at 00:00
FilterMask(r, sd, ed, cats, pays, lo, hi) ==
    /\ r.order_purchase_timestamp >= Midnight(sd)
    /\ r.order_purchase_timestamp <= Midnight(ed)
    /\ isin(r.product_category_name, cats)
    /\ isin(r.payment_type, pays)
    /\ between(r.payment_value, lo, hi)

FilterFrame(frame, sd, ed, cats, pays, lo, hi) ==
    SelectSeq(frame, LAMBDA r : FilterMask(r, sd, ed, cats, pays, lo, hi))

-----------------------------------------------------------------------------
(* The four tabs *)

CountOf(view, cat) ==
    Cardinality({i \in 1..Len(view) : view[i].product_category_name = cat})

\* Series.value_counts(): missing values dropped, one row per distinct value,
\* most frequent first, equal counts in order of first appearance
value_counts(view) ==
    LET keys == Unique(SelectSeq(Column(view, "product_category_name"),
                                 LAMBDA c : c # NoCategory))
        rows == [i \in 1..Len(keys) |->
                    [category |-> keys[i], quantity |-> CountOf(view, keys[i])]]
    IN  SortedBy(rows, [i, j \in 1..Len(rows) |-> rows[i].quantity > rows[j].quantity])

\* a faulty variant of TopCategories: no .head(10)
TopCategoriesUncut(view) == value_counts(view)

TopCategories(view) == HeadN(value_counts(view), TopCategoriesHead)

\* a faulty variant of MonthlyRevenue: the months of every year
MonthlyRevenueAllYears(view) ==
    LET keys == Ascending(Range(Column(view, "year_month")))
    IN  [i \in 1..Len(keys) |->
            [year_month |-> keys[i],
             payment_value |->
                SumSeq(Column(SelectSeq(view, LAMBDA r : r.year_month = keys[i]),
                              "payment_value"))]]

\* a faulty variant of MonthlyRevenue: the twelve months of 2018, 0 for a month without records
MonthlyRevenueZeroFilled(view) ==
    [m \in 1..12 |->
        [year_month |-> RevenueYear * 100 + m,
         payment_value |->
            SumSeq(Column(SelectSeq(view, LAMBDA r : r.year_month = RevenueYear * 100 + m),
                          "payment_value"))]]

\* filtered_df[year == 2018].groupby("year_month")["payment_value"].sum()
MonthlyRevenue(view) ==
    LET rows == SelectSeq(view, LAMBDA r : dt_year(r.order_purchase_timestamp) = RevenueYear)
        keys == Ascending(Range(Column(rows, "year_month")))
    IN  [i \in 1..Len(keys) |->
            [year_month |-> keys[i],
             payment_value |->
                SumSeq(Column(SelectSeq(rows, LAMBDA r : r.year_month = keys[i]),
                              "payment_value"))]]

\* filtered_df["order_hour"], the column handed to the histogram
OrderHours(view) == Column(view, "order_hour")

\* the shipping times a group's mean is taken over: missing ones are skipped
GroupShipping(view, cat) ==
    LET rows == SelectSeq(view, LAMBDA r :
                    r.product_category_name = cat /\ ~isna(r.shipping_time))
    IN  [i \in 1..Len(rows) |-> Val(rows[i].shipping_time)]

\* groupby("product_category_name")["shipping_time"].mean(): one row per
\* category in key order; the mean is the fraction num/den, den = 0 for NaN
GroupMeans(view) ==
    LET keys == Ascending(Range(Column(view, "product_category_name")) \ {NoCategory})
    IN  [i \in 1..Len(keys) |->
            [category |-> keys[i],
             num |-> SumSeq(GroupShipping(view, keys[i])),
             den |-> Len(GroupShipping(view, keys[i]))]]

MeanLess(a, b) == a.num * b.den < b.num * a.den

\* a faulty variant of AvgShippingTime: no .dropna()
AvgShippingTimeKeepNaN(view) ==
    LET rows == GroupMeans(view)
    IN  HeadN(SortedBy(rows, [i, j \in 1..Len(rows) |-> MeanLess(rows[i], rows[j])]),
              AvgShippingHead)

\* .mean().dropna().sort_values(ascending=True).head(10)
AvgShippingTime(view) ==
    LET rows == SelectSeq(GroupMeans(view), LAMBDA g : g.den # 0)
    IN  HeadN(SortedBy(rows, [i, j \in 1..Len(rows) |-> MeanLess(rows[i], rows[j])]),
              AvgShippingHead)

-----------------------------------------------------------------------------
(* The summary *)

TotalOrders(view) == Len(view)

\* a faulty variant of TotalCustomers: nunique(dropna=False)
TotalCustomersCountingMissing(view) == Cardinality(Range(Column(view, "customer_id")))

\* Series.nunique(): missing values are not counted
TotalCustomers(view) == Cardinality(Range(Column(view, "customer_id")) \ {NoText})

TotalRevenue(view) == SumSeq(Column(view, "payment_value"))

-----------------------------------------------------------------------------
(* The dataset files of the model *)

SampleRows ==
    << RawRow(Stamp(2018, 3, 5, 10), Stamp(2018, 3, 8, 10), 1, "card", 100, "A"),
       RawRow(Stamp(2018, 3, 6, 0), Blank, 2, "boleto", 200, "A"),
       RawRow(Stamp(2017, 12, 31, 23), Stamp(2017, 12, 31, 22), 1, "card", 300, "B"),
       RawRow(Stamp(2018, 3, 6, 0), Garbage, NoCategory, "card", 200, NoText),
       RawRow(Stamp(2019, 1, 1, 0), Stamp(2019, 1, 3, 9), 2, NoText, 100, "B"),
       RawRow(Garbage, Blank, 1, "card", 100, "A"),
       RawRow(Stamp(2018, 4, 2, 15), Stamp(2018, 4, 4, 14), 3, "card", 300, NoText) >>

\* every file of 1..MaxRows of the sample rows, in their order
Files ==
    {[p \in 1..Cardinality(I) |-> SampleRows[Ascending(I)[p]]] :
        I \in {J \in SUBSET (1..Len(SampleRows)) :
                  Cardinality(J) >= 1 /\ Cardinality(J) <= MaxRows}}

\* what the user can set the widgets to
DateChoices == {DateNum(2018, 3, 5), DateNum(2018, 3, 6), DateNum(2019, 1, 1)}
PriceChoices == {100, 200, 300}

-----------------------------------------------------------------------------
(* The script run *)

NoWidget == [start |-> NaN, end |-> NaN, category |-> NaN, payment |-> NaN, price |-> NaN]

Init ==
    /\ file \in Files
    /\ cache = <<>>
    /\ reads = 0
    /\ df = <<>>
    /\ widget = NoWidget
    /\ start_date = 0 /\ end_date = 0
    /\ selected_category = {} /\ selected_payment = {}
    /\ min_price = 0 /\ max_price = 0
    /\ filtered_df = <<>>
    /\ top_categories = <<>> /\ monthly_revenue = <<>>
    /\ order_hours = <<>> /\ avg_shipping_time = <<>>
    /\ total_orders = -1 /\ total_customers = -1 /\ total_revenue = -1
    /\ pc = "load"
    /\ changes = 0
    /\ passes = 0

\* a faulty variant of CacheHit: load_data without st.cache_data
CacheNever(c) == FALSE

\* st.cache_data: the body of load_data runs when nothing is cached
CacheHit(c) == c # <<>>

\* df = load_data()
LoadData ==
    /\ pc = "load"
    /\ passes' = passes + 1
    /\ IF CacheHit(cache)
       THEN /\ df' = cache[1]
            /\ pc' = "widgets"
            /\ UNCHANGED <<cache, reads>>
       ELSE /\ reads' = reads + 1
            /\ IF LoadRaises(file)
               THEN /\ pc' = "error"
                    /\ UNCHANGED <<cache, df>>
               ELSE /\ cache' = <<LoadFrame(file)>>
                    /\ df' = LoadFrame(file)
                    /\ pc' = "widgets"
    /\ UNCHANGED <<file, widget, start_date, end_date, selected_category,
                   selected_payment, min_price, max_price, filtered_df, top_categories,
                   monthly_revenue, order_hours, avg_shipping_time, total_orders,
                   total_customers, total_revenue, changes>>

\* a widget returns the user's value, or its default when the user gave none
WidgetValue(given, default) == IF isna(given) THEN default ELSE Val(given)

\* the date_input, multiselect and slider calls of the sidebar
Widgets ==
    /\ pc = "widgets"
    /\ start_date' = WidgetValue(widget.start, DefaultStartDate(df))
    /\ end_date' = WidgetValue(widget.end, DefaultEndDate(df))
    /\ selected_category' = WidgetValue(widget.category, DefaultCategory(df))
    /\ selected_payment' = WidgetValue(widget.payment, DefaultPayment(df))
    /\ min_price' = WidgetValue(widget.price, <<SliderMin(df), SliderMax(df)>>)[1]
    /\ max_price' = WidgetValue(widget.price, <<SliderMin(df), SliderMax(df)>>)[2]
    /\ pc' = "filter"
    /\ UNCHANGED <<file, cache, reads, df, widget, filtered_df, top_categories,
                   monthly_revenue, order_hours, avg_shipping_time, total_orders,
                   total_customers, total_revenue, changes, passes>>

\* a faulty variant of Filter: a later pass filters the previous view instead of df
FilterPreviousView ==
    /\ pc = "filter"
    /\ filtered_df' = FilterFrame(IF passes = 1 THEN df ELSE filtered_df,
                                  start_date, end_date, selected_category,
                                  selected_payment, min_price, max_price)
    /\ pc' = "tab1"
    /\ UNCHANGED <<file, cache, reads, df, widget, start_date, end_date,
                   selected_category, selected_payment, min_price, max_price,
                   top_categories, monthly_revenue, order_hours, avg_shipping_time,
                   total_orders, total_customers, total_revenue, changes, passes>>

Filter ==
    /\ pc = "filter"
    /\ filtered_df' = FilterFrame(df, start_date, end_date, selected_category,
                                  selected_payment, min_price, max_price)
    /\ pc' = "tab1"
    /\ UNCHANGED <<file, cache, reads, df, widget, start_date, end_date,
                   selected_category, selected_payment, min_price, max_price,
                   top_categories, monthly_revenue, order_hours, avg_shipping_time,
                   total_orders, total_customers, total_revenue, changes, passes>>

Tab1 ==
    /\ pc = "tab1"
    /\ top_categories' = TopCategories(filtered_df)
    /\ pc' = "tab2"
    /\ UNCHANGED <<file, cache, reads, df, widget, start_date, end_date,
                   selected_category, selected_payment, min_price, max_price,
                   filtered_df, monthly_revenue, order_hours, avg_shipping_time,
                   total_orders, total_customers, total_revenue, changes, passes>>

Tab2 ==
    /\ pc = "tab2"
    /\ monthly_revenue' = MonthlyRevenue(filtered_df)
    /\ pc' = "tab3"
    /\ UNCHANGED <<file, cache, reads, df, widget, start_date, end_date,
                   selected_category, selected_payment, min_price, max_price,
                   filtered_df, top_categories, order_hours, avg_shipping_time,
                   total_orders, total_customers, total_revenue, changes, passes>>

Tab3 ==
    /\ pc = "tab3"
    /\ order_hours' = OrderHours(filtered_df)
    /\ pc' = "tab4"
    /\ UNCHANGED <<file, cache, reads, df, widget, start_date, end_date,
                   selected_category, selected_payment, min_price, max_price,
                   filtered_df, top_categories, monthly_revenue, avg_shipping_time,
                   total_orders, total_customers, total_revenue, changes, passes>>

Tab4 ==
    /\ pc = "tab4"
    /\ avg_shipping_time' = AvgShippingTime(filtered_df)
    /\ pc' = "summary"
    /\ UNCHANGED <<file, cache, reads, df, widget, start_date, end_date,
                   selected_category, selected_payment, min_price, max_price,
                   filtered_df, top_categories, monthly_revenue, order_hours,
                   total_orders, total_customers, total_revenue, changes, passes>>

Summary ==
    /\ pc = "summary"
    /\ total_orders' = TotalOrders(filtered_df)
    /\ total_customers' = TotalCustomers(filtered_df)
    /\ total_revenue' = TotalRevenue(filtered_df)
    /\ pc' = "done"
    /\ UNCHANGED <<file, cache, reads, df, widget, start_date, end_date,
                   selected_category, selected_payment, min_price, max_price,
                   filtered_df, top_categories, monthly_revenue, order_hours,
                   avg_shipping_time, changes, passes>>

-----------------------------------------------------------------------------
(* The user changes one widget; the script runs again from the top *)

Rerun(w) ==
    /\ pc = "done"
    /\ changes < MaxChanges
    /\ widget' = w
    /\ changes' = changes + 1
    /\ pc' = "load"
    /\ UNCHANGED <<file, cache, reads, df, start_date, end_date, selected_category,
                   selected_payment, min_price, max_price, filtered_df, top_categories,
                   monthly_revenue, order_hours, avg_shipping_time, total_orders,
                   total_customers, total_revenue, passes>>

SetStartDate ==
    /\ pc = "done"
    /\ \E d \in DateChoices \ {start_date} : Rerun([widget EXCEPT !.start = <<d>>])

SetEndDate ==
    /\ pc = "done"
    /\ \E d \in DateChoices \ {end_date} : Rerun([widget EXCEPT !.end = <<d>>])

\* select or deselect one of the multiselect's options
ToggleCategory ==
    /\ pc = "done"
    /\ \E c \in Range(categories(df)) :
          Rerun([widget EXCEPT !.category =
                    <<IF c \in selected_category THEN selected_category \ {c}
                      ELSE selected_category \cup {c}>>])

TogglePayment ==
    /\ pc = "done"
    /\ \E p \in Range(payment_methods(df)) :
          Rerun([widget EXCEPT !.payment =
                    <<IF p \in selected_payment THEN selected_payment \ {p}
                      ELSE selected_payment \cup {p}>>])

\* the slider's two handles stay within the dataset's price range
MoveSlider ==
    /\ pc = "done"
    /\ \E lo, hi \in {v \in PriceChoices : SliderMin(df) <= v /\ v <= SliderMax(df)} :
          /\ lo <= hi
          /\ <<lo, hi>> # <<min_price, max_price>>
          /\ Rerun([widget EXCEPT !.price = <<<<lo, hi>>>>])

Next ==
    \/ LoadData
    \/ Widgets
    \/ Filter
    \/ Tab1
    \/ Tab2
    \/ Tab3
    \/ Tab4
    \/ Summary
    \/ SetStartDate
    \/ SetEndDate
    \/ ToggleCategory
    \/ TogglePayment
    \/ MoveSlider

Spec == Init /\ [][Next]_vars

-----------------------------------------------------------------------------
(* The tabs and the summary over larger filtered views.  A run is taken up  *)
(* after its filter step, the user having selected every category and       *)
(* payment method and an end date after the last purchase, so that the      *)
(* filtered view is the whole dataset.                                      *)

\* rows with a category and a payment method
ViewPool ==
    << SampleRows[1], SampleRows[2], SampleRows[3], SampleRows[7],
       RawRow(Stamp(2018, 3, 5, 10), Blank, 3, "boleto", 100, "B") >>

RECURSIVE SeqsUpTo(_, _)
\* the sequences of at most n elements of S
SeqsUpTo(S, n) ==
    IF n = 0 THEN {<<>>}
    ELSE LET shorter == SeqsUpTo(S, n - 1)
         IN  shorter \cup {Append(q, x) : q \in shorter, x \in S}

\* row j of category c in the generated file of seed s
WideRow(c, j, s) ==
    LET y == CASE (c + s) % 5 = 0 -> 2017
               [] (c + s) % 5 = 1 -> 2019
               [] OTHER -> 2018
        m == ((c + j + s) % 12) + 1
        d == 1 + ((c * j) % 20)
        h == (c * 7 + j * 5 + s) % 24
        delivered == CASE (c + j * s) % 5 = 0 -> Blank
                       [] (c + j + s) % 7 = 0 -> Garbage
                       [] OTHER -> Stamp(y, m, d + ((c * s + j) % 4), (h + 11 * j) % 24)
    IN  RawRow(Stamp(y, m, d, h), delivered, c,
               IF (c + j) % 2 = 0 THEN "card" ELSE "boleto",
               100 * (1 + ((c + j + s) % 3)),
               CASE (c * j + s) % 3 = 0 -> "A"
                 [] (c * j + s) % 3 = 1 -> "B"
                 [] OTHER -> NoText)

WideCount(c, s) == 1 + ((c * (s + 1) + s) % 3)

RECURSIVE WideFile(_, _)
\* a file of k categories, category c holding WideCount(c, s) rows
WideFile(k, s) ==
    IF k = 0 THEN <<>>
    ELSE WideFile(k - 1, s) \o [j \in 1..WideCount(k, s) |-> WideRow(k, j, s)]

ViewFiles ==
    (SeqsUpTo(Range(ViewPool), MaxViewRows) \ {<<>>})
        \cup {WideFile(k, s) : k \in 1..MaxCats, s \in 0..MaxSeed}

InitView ==
    /\ file \in ViewFiles
    /\ df = LoadFrame(file)
    /\ cache = <<df>>
    /\ reads = 1
    /\ start_date = DefaultStartDate(df)
    /\ end_date = DefaultEndDate(df) + 1
    /\ selected_category = Range(categories(df))
    /\ selected_payment = DefaultPayment(df)
    /\ min_price = SliderMin(df) /\ max_price = SliderMax(df)
    /\ widget = [NoWidget EXCEPT !.end = <<end_date>>, !.category = <<selected_category>>]
    /\ filtered_df = FilterFrame(df, start_date, end_date, selected_category,
                                 selected_payment, min_price, max_price)
    /\ top_categories = <<>> /\ monthly_revenue = <<>>
    /\ order_hours = <<>> /\ avg_shipping_time = <<>>
    /\ total_orders = -1 /\ total_customers = -1 /\ total_revenue = -1
    /\ pc = "tab1"
    /\ changes = 0
    /\ passes = 1

NextView ==
    \/ Tab1
    \/ Tab2
    \/ Tab3
    \/ Tab4
    \/ Summary

SpecView == InitView /\ [][NextView]_vars

-----------------------------------------------------------------------------
(* Properties.  The helpers of C1..C8 state what the specification says of *)
(* a record or a view without using the operators of the pipeline above;   *)
(* C10 compares a finished pass with the pipeline applied to the dataset   *)
(* and the current widget values.                                          *)

\* the states of a run in which filtered_df is the view of the current parameters
Filtered == pc \in {"tab1", "tab2", "tab3", "tab4", "summary", "done"}

Rows(frame) == 1..Len(frame)

RECURSIVE SumBetween(_, _, _)
\* f[lo] + ... + f[hi]
SumBetween(f, lo, hi) ==
    CASE lo > hi -> 0
      [] lo = hi -> f[lo]
      [] OTHER -> LET mid == (lo + hi) \div 2
                  IN  SumBetween(f, lo, mid) + SumBetween(f, mid + 1, hi)

\* the sum of f over the rows I of the sequence f
SumOver(f, I) == SumBetween([i \in 1..Len(f) |-> IF i \in I THEN f[i] ELSE 0], 1, Len(f))

\* the inclusion predicate of the specification: whole dates, both ends inclusive
Included(r) ==
    /\ start_date <= dt_date(r.order_purchase_timestamp)
    /\ dt_date(r.order_purchase_timestamp) <= end_date
    /\ r.product_category_name # NoCategory
    /\ r.product_category_name \in selected_category
    /\ r.payment_type # NoText
    /\ r.payment_type \in selected_payment
    /\ min_price <= r.payment_value
    /\ r.payment_value <= max_price

\* C1: a record of the dataset is in the filtered view if and only if its
\* purchase date is within [start_date, end_date] (a purchase at any time of
\* day on end_date included), its category and payment type are present and
\* selected, and its payment value is within [price_min, price_max].
C1_InclusionPredicate ==
    Filtered => filtered_df = SelectSeq(df, Included)

FullBounds ==
    /\ start_date = dt_date(Min({df[i].order_purchase_timestamp : i \in Rows(df)}))
    /\ end_date = dt_date(Max({df[i].order_purchase_timestamp : i \in Rows(df)}))
    /\ selected_category = {df[i].product_category_name : i \in Rows(df)} \ {NoCategory}
    /\ selected_payment = {df[i].payment_type : i \in Rows(df)} \ {NoText}
    /\ min_price = Min({df[i].payment_value : i \in Rows(df)})
    /\ max_price = Max({df[i].payment_value : i \in Rows(df)})

\* C2: the filtered view is a subset of the dataset, and under the dataset's
\* full bounds (min/max purchase date, all categories, all payment types,
\* min/max payment value) the filtered view is the whole dataset.
C2_SubsetAndFullBounds ==
    Filtered =>
        /\ Range(filtered_df) \subseteq Range(df)
        /\ FullBounds => filtered_df = df

\* C3: total_orders is the number of records of the view, total_customers the
\* number of distinct present customer_id values among them, total_revenue
\* the sum of their payment_value; payments [100, 200, 300] of customers
\* [A, A, B] give 3, 2 and 600.
C3_SummaryMetrics ==
    pc = "done" =>
        /\ total_orders = Cardinality(Rows(filtered_df))
        /\ total_customers =
              Cardinality({c \in {"A", "B"} :
                              \E i \in Rows(filtered_df) : filtered_df[i].customer_id = c})
        /\ total_revenue =
              SumOver([i \in Rows(filtered_df) |-> filtered_df[i].payment_value],
                      Rows(filtered_df))
        /\ ( /\ [i \in Rows(filtered_df) |-> filtered_df[i].payment_value] = <<100, 200, 300>>
             /\ [i \in Rows(filtered_df) |-> filtered_df[i].customer_id] = <<"A", "A", "B">> )
           => (total_orders = 3 /\ total_customers = 2 /\ total_revenue = 600)

C3_Witness ==
    /\ pc = "done"
    /\ [i \in Rows(filtered_df) |-> filtered_df[i].payment_value] = <<100, 200, 300>>
    /\ [i \in Rows(filtered_df) |-> filtered_df[i].customer_id] = <<"A", "A", "B">>
    /\ total_orders = 3 /\ total_customers = 2 /\ total_revenue = 600

ViewCategories == {filtered_df[i].product_category_name : i \in Rows(filtered_df)} \ {NoCategory}
Quantity(c) == Cardinality({i \in Rows(filtered_df) : filtered_df[i].product_category_name = c})

\* C5: the top-categories result has at most 10 rows, one per category, each
\* with the number of records of the view in that (present) category, ordered
\* non-increasing by count, and no category left out has a greater count than
\* a category in the result.
C5_TopCategories ==
    pc \in {"tab2", "tab3", "tab4", "summary", "done"} =>
        LET top == top_categories
            shown == {top[i].category : i \in Rows(top)}
        IN  /\ Len(top) <= 10
            /\ Cardinality(shown) = Len(top)
            /\ shown \subseteq ViewCategories
            /\ \A i \in Rows(top) : top[i].quantity = Quantity(top[i].category)
            /\ \A i, j \in Rows(top) : i < j => top[i].quantity >= top[j].quantity
            /\ \A c \in ViewCategories \ shown :
                  /\ Len(top) = 10
                  /\ \A i \in Rows(top) : Quantity(c) <= top[i].quantity

C5_Witness ==
    /\ pc = "done"
    /\ Cardinality(ViewCategories) > 10
    /\ Len(top_categories) = 10
    /\ top_categories[1].quantity > top_categories[10].quantity
    /\ \E c \in ViewCategories \ {top_categories[i].category : i \in Rows(top_categories)} :
          Quantity(c) = top_categories[10].quantity

\* the records of category c whose shipping_time is present
Shipped(c) ==
    {i \in Rows(filtered_df) :
        filtered_df[i].product_category_name = c /\ filtered_df[i].shipping_time # <<>>}
ShippedCategories == {c \in ViewCategories : Shipped(c) # {}}
ShippingSum(c) ==
    SumOver([i \in Rows(filtered_df) |->
                IF i \in Shipped(c) THEN filtered_df[i].shipping_time[1] ELSE 0],
            Shipped(c))

\* C6: the average-shipping-time result has at most 10 rows, ordered
\* non-decreasing by mean; a row's mean is taken over the records of its
\* category whose shipping_time is present; a category whose records all lack
\* a shipping_time is not in the result and takes none of the 10 slots.
C6_AvgShippingTime ==
    pc \in {"summary", "done"} =>
        LET avg == avg_shipping_time
            shown == {avg[i].category : i \in Rows(avg)}
        IN  /\ Len(avg) <= 10
            /\ Cardinality(shown) = Len(avg)
            /\ shown \subseteq ShippedCategories
            /\ \A i \in Rows(avg) :
                  /\ avg[i].den = Cardinality(Shipped(avg[i].category))
                  /\ avg[i].num = ShippingSum(avg[i].category)
            /\ \A i, j \in Rows(avg) :
                  i < j => avg[i].num * avg[j].den <= avg[j].num * avg[i].den
            /\ \A c \in ShippedCategories \ shown :
                  /\ Len(avg) = 10
                  /\ \A i \in Rows(avg) :
                        avg[i].num * Cardinality(Shipped(c)) <= ShippingSum(c) * avg[i].den

C6_Witness ==
    /\ pc = "done"
    /\ Cardinality(ShippedCategories) > 10
    /\ ViewCategories # ShippedCategories
    /\ Len(avg_shipping_time) = 10
    /\ \E i \in Rows(avg_shipping_time) : avg_shipping_time[i].num < 0
    /\ \E i \in Rows(avg_shipping_time) :
          avg_shipping_time[i].den < Quantity(avg_shipping_time[i].category)

\* the year-month buckets of 2018 that hold a record of the view
Months2018 ==
    {filtered_df[i].year_month : i \in Rows(filtered_df)} \cap (201801..201812)

\* C7: the monthly-revenue result holds exactly the year-month buckets of
\* 2018 that have a record in the view, each with the sum of payment_value of
\* that month's records, in ascending order of year_month.
C7_MonthlyRevenue ==
    pc \in {"tab3", "tab4", "summary", "done"} =>
        LET rev == monthly_revenue
        IN  /\ {rev[i].year_month : i \in Rows(rev)} = Months2018
            /\ \A i, j \in Rows(rev) : i < j => rev[i].year_month < rev[j].year_month
            /\ \A i \in Rows(rev) :
                  rev[i].payment_value =
                     SumOver([k \in Rows(filtered_df) |-> filtered_df[k].payment_value],
                             {k \in Rows(filtered_df) :
                                 filtered_df[k].year_month = rev[i].year_month})

C7_Witness ==
    /\ pc = "done"
    /\ Len(monthly_revenue) >= 2
    /\ \E i \in Rows(filtered_df) : filtered_df[i].year_month < 201801
    /\ \E i \in Rows(filtered_df) : filtered_df[i].year_month > 201812
    /\ \E i \in Rows(monthly_revenue) :
          Cardinality({k \in Rows(filtered_df) :
                          filtered_df[k].year_month = monthly_revenue[i].year_month}) > 1

\* the dataset is loaded: a run has passed load_data without an error
Loaded == passes > 0 /\ pc # "error"

\* whole hours from the purchase cell p to the delivery cell d of a file row
HoursApart(p, d) ==
    ((d.y - p.y) * 365 + (CumDays[d.m] - CumDays[p.m]) + (d.d - p.d)) * 24 + (d.h - p.h)

C9_LoadedOnceAndImmutable ==
    /\ [](reads = IF passes = 0 THEN 0 ELSE 1)
    /\ [](Loaded => (df = cache[1] /\ Len(df) = Len(file)))
    /\ [][Loaded => (df' = df /\ cache' = cache /\ file' = file /\ reads' = reads)]_vars

C9_Witness ==
    /\ pc = "done"
    /\ passes = 3
    /\ changes = 2
    /\ reads = 1
    /\ filtered_df # df

\* the parameters the widgets hold: the user's values, the defaults otherwise
CurrentParams ==
    [sd |-> IF widget.start = <<>> THEN DefaultStartDate(df) ELSE widget.start[1],
     ed |-> IF widget.end = <<>> THEN DefaultEndDate(df) ELSE widget.end[1],
     cats |-> IF widget.category = <<>> THEN DefaultCategory(df) ELSE widget.category[1],
     pays |-> IF widget.payment = <<>> THEN DefaultPayment(df) ELSE widget.payment[1],
     lo |-> IF widget.price = <<>> THEN SliderMin(df) ELSE widget.price[1][1],
     hi |-> IF widget.price = <<>> THEN SliderMax(df) ELSE widget.price[1][2]]

\* the results of a pass as a function of the dataset and the parameters
Render(frame, q) ==
    LET view == FilterFrame(frame, q.sd, q.ed, q.cats, q.pays, q.lo, q.hi)
    IN  <<view, TopCategories(view), MonthlyRevenue(view), OrderHours(view),
          AvgShippingTime(view), TotalOrders(view), TotalCustomers(view),
          TotalRevenue(view)>>

====
